---- MODULE Spec2Model ----
(***************************************************************************)
(* Sale & inventory consistency engine of the POS back office              *)
(* (src/core/serializers.py, src/core/views.py, src/core/models.py).       *)
(*                                                                         *)
(* The relational store is modelled with READ COMMITTED visibility and     *)
(* row-level write locks: a plain SELECT sees the last committed row (or   *)
(* the transaction's own write), an UPDATE or SELECT ... FOR UPDATE waits  *)
(* while another transaction holds the row, and the lock is kept until the *)
(* transaction.atomic() block commits.  Every request handler is split at  *)
(* its database statements, so that two requests interleave exactly where  *)
(* two Django workers can.                                                 *)
(***************************************************************************)
EXTENDS Integers, Sequences, FiniteSets

\* ------------------------------------------------------------ bounds
MaxRequests == 3      \* requests admitted in one behaviour
InitStock == 1        \* stock_quantity of every product at the start
MinLevel == 0         \* min_stock_level of every product
MaxPayRequests == 1   \* sale requests admitted in one behaviour of PaySpec
MaxPORequests == 2    \* requests admitted in one behaviour of POSpec
MaxLiveRequests == 2  \* requests admitted in one behaviour of LiveSpec

\* The catalog, the workers, and what a request may ask for: an item quantity
\* (IntegerField(min_value=1)), an adjustment quantity (min_value=0), and the
\* number of items in a sale or a purchase order (at least one).
Products == {"p1", "p2"}
Procs == {"r1", "r2"}
Quantities == {1}
AdjustQuantities == {0, 1}
ItemCounts == {1, 2}
Free == "free"

\* Money.  Product.price and Product.tax_rate are the same for every product
\* (price 0.10, tax 16%); amounts of money are integers in cents.  A sale item
\* carries a discount_percent (0..100) and a sale request an amount_paid
\* (min_value=0) and a payment_method.  The specifications that exercise the
\* stock flow use one value of each; PaySpec draws them from the wider sets.
Price == [x \in Products |-> 10]
TaxRate == [x \in Products |-> 16]
Discounts == {0}
AmountsPaid == {50}
Methods == {"cash"}
PayDiscounts == {0, 5, 100}
PayAmountsPaid == {0, 11, 12}
PayMethods == {"cash", "card"}

VARIABLES
  stock_quantity,   \* Product.stock_quantity, committed value per product
  row_lock,         \* owner of each product row's write lock, or Free
  stock_movements,  \* table stock_movements (committed rows, insertion order)
  sales,            \* table sales with its sale_items (committed rows)
  purchase_orders,  \* table purchase_orders with its items (committed rows)
  stock_alerts,     \* table stock_alerts (committed rows)
  payments,         \* table payments (committed rows)
  pc,               \* where each request handler stands
  loc,              \* each handler's local variables and uncommitted writes
  resp,             \* the response returned last: <<operation, outcome>>
  nreq,             \* requests admitted so far
  applied_delta     \* history: sum of the deltas of the committed operations

vars == <<stock_quantity, row_lock, stock_movements, sales, purchase_orders,
          stock_alerts, payments, pc, loc, resp, nreq, applied_delta>>

db == <<stock_quantity, stock_movements, sales, purchase_orders, stock_alerts,
        payments>>

\* ------------------------------------------------------------ helpers
RECURSIVE SumQty(_)
SumQty(s) == IF s = <<>> THEN 0 ELSE Head(s).quantity + SumQty(Tail(s))

SelectSeqBy(s, x) == SelectSeq(s, LAMBDA r : r.product = x)

\* Sum of quantity over the rows of s that name product x.
QtyOf(s, x) == SumQty(SelectSeqBy(s, x))

\* The sale requests whose discounts, amount paid and method come from ds, as
\* and ms.
SaleRequestsOver(ds, as, ms) ==
  [ items : UNION { [1..n -> [ product : Products, quantity : Quantities,
                               discount_percent : ds ]] : n \in ItemCounts },
    amount_paid : as, payment_method : ms ]

SaleRequests == SaleRequestsOver(Discounts, AmountsPaid, Methods)

PaySaleRequests == SaleRequestsOver(PayDiscounts, PayAmountsPaid, PayMethods)

ZeroDelta == [x \in Products |-> 0]

\* A handler's locals: the row it works on (target, and the status and
\* received_date of the in-memory instance), the item list it iterates and the
\* index of the next item, the in-memory product.stock_quantity (snap), the
\* amount_paid and payment_method of a sale request (paid, method), and
\* the uncommitted writes of its transaction: product rows (tx, where it holds
\* the row lock), stock_movements rows (mov) and sale_items rows (rows).
IdleLoc ==
  [ target |-> 0, atype |-> "none", status |-> "none", received_date |-> FALSE,
    items |-> <<>>, i |-> 0, snap |-> 0, paid |-> 0, method |-> "none",
    tx |-> ZeroDelta, mov |-> <<>>, rows |-> <<>> ]

\* The value a SELECT inside p's transaction returns for product x.
ReadStock(p, x) == IF row_lock[x] = p THEN loc[p].tx[x] ELSE stock_quantity[x]

\* An UPDATE / SELECT FOR UPDATE of product x by p does not have to wait.
CanLock(p, x) == row_lock[x] \in {Free, p}

\* COMMIT of p's transaction: its writes become the committed rows.
CommittedStock(p) ==
  [x \in Products |-> IF row_lock[x] = p THEN loc[p].tx[x] ELSE stock_quantity[x]]

ReleasedLocks(p) == [x \in Products |-> IF row_lock[x] = p THEN Free ELSE row_lock[x]]

Return(p, r) ==
  /\ pc' = [pc EXCEPT ![p] = "idle"]
  /\ loc' = [loc EXCEPT ![p] = IdleLoc]
  /\ resp' = r

\* A request is taken up by an idle worker.  Workers are interchangeable, so
\* the second one is used only while the first is busy.
Admit(p) ==
  /\ pc[p] = "idle"
  /\ p = "r1" \/ pc["r1"] # "idle"
  /\ nreq < MaxRequests
  /\ nreq' = nreq + 1

\* Products are interchangeable as well (same stock, level and price at the
\* start), so the very first request names p1 first.
FirstUse(x) == nreq = 0 => x = "p1"

Init ==
  /\ stock_quantity = [x \in Products |-> InitStock]
  /\ row_lock = [x \in Products |-> Free]
  /\ stock_movements = <<>>
  /\ sales = <<>>
  /\ purchase_orders = <<>>
  /\ stock_alerts = <<>>
  /\ payments = <<>>
  /\ pc = [p \in Procs |-> "idle"]
  /\ loc = [p \in Procs |-> IdleLoc]
  /\ resp = <<"none", "none">>
  /\ nreq = 0
  /\ applied_delta = ZeroDelta

\* ------------------------------------------------------------ sale creation
\* Product.name and Product.sku: one of each per product, sku unique.
Name == [x \in Products |-> <<"name", x>>]

Sku == [x \in Products |-> <<"sku", x>>]

\* Variant: the stock check off by one.
InsufficientStock_OffByOne(stock, quantity) == stock + 1 < quantity

\* SaleCreateSerializer.validate: "if product.stock_quantity < item quantity".
InsufficientStock(stock, quantity) == stock < quantity

\* Variant: the sale leaves the stock as it was.
SaleNewStock_Unchanged(stock, quantity) == stock

\* SaleCreateSerializer.create: "product.stock_quantity -= item_data['quantity']".
SaleNewStock(stock, quantity) == stock - quantity

\* create(): the SaleItem row, a snapshot of the product row just read with
\* select_for_update, with the quantity and discount_percent of the input item.
SaleItemRow(x, it) ==
  [ product |-> x, product_name |-> Name[x], product_sku |-> Sku[x],
    quantity |-> it.quantity, unit_price |-> Price[x], tax_rate |-> TaxRate[x],
    discount_percent |-> it.discount_percent ]

\* The StockMovement row create() writes after product.save(): previous_quantity is
\* recomputed from the decremented in-memory value.
SaleMovement(x, quantity, new) ==
  [ product |-> x, movement_type |-> "sale", quantity |-> 0 - quantity,
    previous_quantity |-> new + quantity, new_quantity |-> new, ref |-> 0 ]

\* Decimal arithmetic is exact on these inputs; an unrounded amount is an
\* integer number of 1/10000 cent.
Scale == 10000

RECURSIVE SumSeq(_)
SumSeq(s) == IF s = <<>> THEN 0 ELSE Head(s) + SumSeq(Tail(s))

\* validate(): "item_subtotal = unit_price * quantity".
ItemSubtotal(it) == Price[it.product] * it.quantity * Scale

\* "item_discount = item_subtotal * (discount_percent / Decimal('100'))".
ItemDiscount(it) == (ItemSubtotal(it) * it.discount_percent) \div 100

\* "item_tax = item_after_discount * (tax_rate / Decimal('100'))".
ItemTax(it) == ((ItemSubtotal(it) - ItemDiscount(it)) * TaxRate[it.product]) \div 100

\* Decimal.quantize(Decimal('0.01')) under the default context: round half to
\* even; the result is in cents.
Quantize(v) ==
  LET q == v \div Scale
      r == v % Scale
  IN IF 2 * r > Scale \/ (2 * r = Scale /\ q % 2 = 1) THEN q + 1 ELSE q

\* validate(): the totals over the items and attrs['_calculated'].
Calculated(items, amount_paid) ==
  LET subtotal == SumSeq([k \in 1..Len(items) |-> ItemSubtotal(items[k])])
      discount_amount == SumSeq([k \in 1..Len(items) |-> ItemDiscount(items[k])])
      tax_amount == SumSeq([k \in 1..Len(items) |-> ItemTax(items[k])])
      total == Quantize(subtotal - discount_amount + tax_amount)
  IN [ subtotal |-> Quantize(subtotal), tax_amount |-> Quantize(tax_amount),
       discount_amount |-> Quantize(discount_amount), total |-> total,
       change_amount |-> Quantize((amount_paid - total) * Scale) ]

\* Variant: the payment check off by one cent.
InsufficientPayment_OffByOne(amount_paid, total) == amount_paid + 1 < total

\* validate(): "if amount_paid < total".
InsufficientPayment(amount_paid, total) == amount_paid < total

\* validate(): one pass of the loop over items, by a handler whose request is
\* req and whose next item is the i-th: a plain Product.objects.get outside any
\* transaction, then the stock check of that item; after the last item the
\* total and the payment check.
ValidatePass(p, req, i) ==
  IF InsufficientStock(stock_quantity[req.items[i].product], req.items[i].quantity)
  THEN Return(p, <<"sale_create", "InsufficientStock">>)
  ELSE IF i = Len(req.items)
          /\ InsufficientPayment(req.amount_paid,
                                 Calculated(req.items, req.amount_paid).total)
  THEN Return(p, <<"sale_create", "InsufficientPayment">>)
  ELSE /\ pc' = [pc EXCEPT ![p] =
                   IF i = Len(req.items) THEN "sale_create" ELSE "sale_validate"]
       /\ loc' = [loc EXCEPT ![p] =
             [IdleLoc EXCEPT !.items = req.items, !.paid = req.amount_paid,
                             !.method = req.payment_method,
                             !.i = IF i = Len(req.items) THEN 1 ELSE i + 1]]
       /\ UNCHANGED resp

\* POST /sales/create/ arrives and validate() examines the first item.
StartSale(p, req) ==
  /\ Admit(p)
  /\ FirstUse(req.items[1].product)
  /\ ValidatePass(p, req, 1)
  /\ UNCHANGED <<db, row_lock, applied_delta>>

\* validate() examines the next item.
SaleValidate(p) ==
  /\ pc[p] = "sale_validate"
  /\ ValidatePass(p, [ items |-> loc[p].items, amount_paid |-> loc[p].paid,
                       payment_method |-> loc[p].method ], loc[p].i)
  /\ UNCHANGED <<db, row_lock, nreq, applied_delta>>

\* create(): one pass of the loop inside transaction.atomic():
\* select_for_update().get, SaleItem.objects.create, product.save,
\* StockMovement.objects.create.  The Sale row inserted before the loop is
\* invisible to every other transaction until the commit.
SaleItemStep(p) ==
  /\ pc[p] = "sale_create"
  /\ LET it == loc[p].items[loc[p].i]
         x == it.product
         new == SaleNewStock(ReadStock(p, x), it.quantity)
     IN /\ CanLock(p, x)
        /\ row_lock' = [row_lock EXCEPT ![x] = p]
        /\ loc' = [loc EXCEPT ![p].tx[x] = new,
                              ![p].mov = Append(@, SaleMovement(x, it.quantity, new)),
                              ![p].rows = Append(@, SaleItemRow(x, it)),
                              ![p].i = @ + 1]
        /\ pc' = [pc EXCEPT ![p] =
                    IF loc[p].i = Len(loc[p].items) THEN "sale_commit" ELSE @]
  /\ UNCHANGED <<db, resp, nreq, applied_delta>>

\* The Sale row create() inserts: the amounts validate() calculated, the
\* amount_paid and payment_method of the request, status completed.
SaleRow(rows, calculated, amount_paid, payment_method) ==
  [ status |-> "completed", items |-> rows,
    subtotal |-> calculated.subtotal, tax_amount |-> calculated.tax_amount,
    discount_amount |-> calculated.discount_amount, total |-> calculated.total,
    amount_paid |-> amount_paid, change_amount |-> calculated.change_amount,
    payment_method |-> payment_method ]

\* Variant: the payment records the sale total instead of the amount paid.
PaymentRow_Total(sale, row) ==
  [ sale |-> sale, payment_method |-> row.payment_method, amount |-> row.total ]

\* create(): "Payment.objects.create(sale, payment_method, amount=amount_paid)".
PaymentRow(sale, row) ==
  [ sale |-> sale, payment_method |-> row.payment_method, amount |-> row.amount_paid ]

\* create(): Payment.objects.create and the end of the atomic block.
SaleCommit(p) ==
  /\ pc[p] = "sale_commit"
  /\ LET row == SaleRow(loc[p].rows, Calculated(loc[p].items, loc[p].paid),
                        loc[p].paid, loc[p].method)
     IN /\ sales' = Append(sales, row)
        /\ payments' = Append(payments, PaymentRow(Len(sales) + 1, row))
  /\ stock_movements' = stock_movements \o
        [k \in 1..Len(loc[p].mov) |-> [loc[p].mov[k] EXCEPT !.ref = Len(sales) + 1]]
  /\ stock_quantity' = CommittedStock(p)
  /\ row_lock' = ReleasedLocks(p)
  /\ applied_delta' = [x \in Products |-> applied_delta[x] - QtyOf(loc[p].rows, x)]
  /\ Return(p, <<"sale_create", "Created">>)
  /\ UNCHANGED <<purchase_orders, stock_alerts, nreq>>

\* ------------------------------------------------------------ stock adjustment
AdjustmentTypes == {"add", "remove", "set"}

\* Variant: a "set" adjustment adds the quantity.
AdjNewQuantity_SetAdds(atype, previous, quantity) ==
  CASE atype = "add" -> previous + quantity
    [] atype = "remove" -> previous - quantity
    [] OTHER -> previous + quantity

\* StockAdjustmentView.post: "Calculate new quantity".
AdjNewQuantity(atype, previous, quantity) ==
  CASE atype = "add" -> previous + quantity
    [] atype = "remove" -> previous - quantity
    [] OTHER -> quantity

\* Variant: a "set" adjustment records the absolute quantity as its delta.
AdjMovementQuantity_SetAbsolute(atype, previous, quantity) ==
  CASE atype = "add" -> quantity
    [] atype = "remove" -> 0 - quantity
    [] OTHER -> quantity

AdjMovementQuantity(atype, previous, quantity) ==
  CASE atype = "add" -> quantity
    [] atype = "remove" -> 0 - quantity
    [] OTHER -> quantity - previous

OpenAlerts(alerts, x) ==
  { k \in 1..Len(alerts) : alerts[k].product = x /\ ~alerts[k].is_resolved }

\* Variant: the alert level itself does not count as low.
BelowLevel_Strict(new) == new < MinLevel

\* StockAdjustmentView.post: "if new_quantity <= product.min_stock_level".
BelowLevel(new) == new <= MinLevel

\* Variant: a plain create instead of get_or_create.
AlertsAfterAdjust_AlwaysCreate(alerts, x, new) ==
  IF new <= MinLevel
  THEN Append(alerts, [ product |-> x, alert_level |-> MinLevel,
                        current_stock |-> new, is_resolved |-> FALSE ])
  ELSE alerts

\* StockAlert.objects.get_or_create(product, is_resolved=False, defaults=...)
\* when the new quantity is at or below min_stock_level.
AlertsAfterAdjust(alerts, x, new) ==
  IF BelowLevel(new) /\ OpenAlerts(alerts, x) = {}
  THEN Append(alerts, [ product |-> x, alert_level |-> MinLevel,
                        current_stock |-> new, is_resolved |-> FALSE ])
  ELSE alerts

\* Variant: the availability check off by one.
CannotRemove_OffByOne(atype, stock, quantity) ==
  atype = "remove" /\ stock + 1 < quantity

\* StockAdjustmentSerializer.validate:
\* "if adjustment_type == 'remove' and product.stock_quantity < quantity".
CannotRemove(atype, stock, quantity) == atype = "remove" /\ stock < quantity

\* POST /stock/adjust/: StockAdjustmentSerializer.validate reads the product
\* with a plain get, outside any transaction, and keeps the instance.
AdjustValidate(p, x, atype, quantity) ==
  /\ Admit(p)
  /\ FirstUse(x)
  /\ IF CannotRemove(atype, stock_quantity[x], quantity)
     THEN Return(p, <<"stock_adjust", "InsufficientStock">>)
     ELSE /\ pc' = [pc EXCEPT ![p] = "adj_save"]
          /\ loc' = [loc EXCEPT ![p] =
                [IdleLoc EXCEPT !.atype = atype, !.snap = stock_quantity[x],
                                !.items = <<[product |-> x, quantity |-> quantity]>>]]
          /\ UNCHANGED resp
  /\ UNCHANGED <<db, row_lock, applied_delta>>

\* StockAdjustmentView.post, the atomic block up to the StockMovement:
\* previous_quantity is the value of the instance validate() kept; product.save()
\* waits for the row lock and holds it until the commit.
AdjustSave(p) ==
  /\ pc[p] = "adj_save"
  /\ LET x == loc[p].items[1].product
         quantity == loc[p].items[1].quantity
         previous == loc[p].snap
         new == AdjNewQuantity(loc[p].atype, previous, quantity)
         mq == AdjMovementQuantity(loc[p].atype, previous, quantity)
     IN /\ CanLock(p, x)
        /\ row_lock' = [row_lock EXCEPT ![x] = p]
        /\ loc' = [loc EXCEPT ![p].tx[x] = new,
                              ![p].mov = Append(@,
                                 [ product |-> x, movement_type |-> "adjustment",
                                   quantity |-> mq, previous_quantity |-> previous,
                                   new_quantity |-> new, ref |-> 0 ])]
  /\ pc' = [pc EXCEPT ![p] = "adj_commit"]
  /\ UNCHANGED <<db, resp, nreq, applied_delta>>

\* The low-stock get_or_create and the end of the atomic block.
AdjustCommit(p) ==
  /\ pc[p] = "adj_commit"
  /\ LET x == loc[p].items[1].product
     IN /\ stock_quantity' = CommittedStock(p)
        /\ stock_movements' = stock_movements \o loc[p].mov
        /\ stock_alerts' = AlertsAfterAdjust(stock_alerts, x, loc[p].tx[x])
        /\ applied_delta' = [applied_delta EXCEPT ![x] = @ + loc[p].mov[1].quantity]
  /\ row_lock' = ReleasedLocks(p)
  /\ Return(p, <<"stock_adjust", "Ok">>)
  /\ UNCHANGED <<sales, purchase_orders, payments, nreq>>

\* ------------------------------------------------------------ purchase orders
\* A purchase-order item of a request carries a quantity and a unit_cost, read
\* from an unvalidated dict (int(...) and Decimal(str(...))); unit_cost is in
\* 1/10000 cent, so 10000 is 0.01 and 15000 is 0.015.  The specifications that
\* exercise the stock flow use one value of each; POSpec draws them from the
\* wider sets.
UnitCosts == {10000}
POQuantities == {-1, 0, 1, 2}
POUnitCosts == {0, 10000, 15000}

PORequestsOver(ns, qs, cs) ==
  UNION { [1..n -> [product : Products, quantity : qs, unit_cost : cs]] : n \in ns }

PORequests == PORequestsOver(ItemCounts, Quantities, UnitCosts)

\* One item with any of the quantities, or several items of quantity 1.
POWideRequests ==
  PORequestsOver({1}, POQuantities, POUnitCosts)
    \cup PORequestsOver(ItemCounts, Quantities, POUnitCosts)

\* A DecimalField(decimal_places=2) on save: the in-memory Decimal is quantized
\* to two places; the result is in cents.
Stored(v) == Quantize(v)

\* PurchaseOrderItem.save: "self.subtotal = self.unit_cost * self.quantity_ordered".
POItemSubtotal(it) == it.unit_cost * it.quantity

\* PurchaseOrderCreateSerializer.create: "subtotal * Decimal('0.16')".
POTax(subtotal) == (subtotal * 16) \div 100

\* PurchaseOrderCreateSerializer.create: the PurchaseOrder row after po.save().
PORow(items) ==
  LET subtotal == SumSeq([k \in 1..Len(items) |-> POItemSubtotal(items[k])])
      tax_amount == POTax(subtotal)
  IN [ status |-> "pending", received_date |-> FALSE,
       items |-> [k \in 1..Len(items) |->
                    [ product |-> items[k].product,
                      quantity |-> items[k].quantity,
                      quantity_received |-> 0,
                      unit_cost |-> Stored(items[k].unit_cost),
                      subtotal |-> Stored(POItemSubtotal(items[k])) ]],
       subtotal |-> Stored(subtotal), tax_amount |-> Stored(tax_amount),
       total |-> Stored(subtotal + tax_amount) ]

\* PurchaseOrderCreateSerializer.create: the PO with status pending and one
\* PurchaseOrderItem per input item, quantity_received at its default 0, in one
\* atomic block.
POCreate(p, items) ==
  /\ Admit(p)
  /\ FirstUse(items[1].product)
  /\ purchase_orders' = Append(purchase_orders, PORow(items))
  /\ Return(p, <<"po_create", "Created">>)
  /\ UNCHANGED <<stock_quantity, stock_movements, sales, stock_alerts, payments, row_lock,
                 applied_delta>>

\* Variant: the status compared with a misspelt value.
AlreadyReceived_Misspelt(status) == status = "recieved"

\* receive_purchase_order: "if po.status == 'received'".
AlreadyReceived(status) == status = "received"

\* Variant: the stock is overwritten with the ordered quantity.
ReceiveNewQuantity_Overwrite(previous, ordered) == ordered

\* receive_purchase_order: "new_quantity = previous_quantity + item.quantity_ordered".
ReceiveNewQuantity(previous, ordered) == previous + ordered

\* StockAlert.objects.filter(product=product, is_resolved=False).update(is_resolved=True)
\* for every product the transaction wrote.
ResolveAlerts(alerts, xs) ==
  [k \in 1..Len(alerts) |->
     IF alerts[k].product \in xs THEN [alerts[k] EXCEPT !.is_resolved = TRUE]
     ELSE alerts[k]]

\* POST /purchase-orders/<pk>/receive/: PurchaseOrder.objects.get and the
\* status check, both before the atomic block.
ReceiveBegin(p, id) ==
  /\ Admit(p)
  /\ id \in 1..Len(purchase_orders)
  /\ IF AlreadyReceived(purchase_orders[id].status)
     THEN Return(p, <<"po_receive", "Conflict">>)
     ELSE /\ pc' = [pc EXCEPT ![p] = "recv_read"]
          /\ loc' = [loc EXCEPT ![p] =
                [IdleLoc EXCEPT !.target = id, !.status = purchase_orders[id].status,
                                !.received_date = purchase_orders[id].received_date,
                                !.items = purchase_orders[id].items, !.i = 1]]
          /\ UNCHANGED resp
  /\ UNCHANGED <<db, row_lock, applied_delta>>

\* "product = item.product; previous_quantity = product.stock_quantity": a plain
\* SELECT of the product row.
ReceiveRead(p) ==
  /\ pc[p] = "recv_read"
  /\ loc' = [loc EXCEPT ![p].snap = ReadStock(p, loc[p].items[loc[p].i].product)]
  /\ pc' = [pc EXCEPT ![p] = "recv_write"]
  /\ UNCHANGED <<db, row_lock, resp, nreq, applied_delta>>

\* product.save(), item.save(), StockMovement.objects.create and the alert
\* update for one item.
ReceiveWrite(p) ==
  /\ pc[p] = "recv_write"
  /\ LET it == loc[p].items[loc[p].i]
         x == it.product
         previous == loc[p].snap
         new == ReceiveNewQuantity(previous, it.quantity)
     IN /\ CanLock(p, x)
        /\ row_lock' = [row_lock EXCEPT ![x] = p]
        /\ loc' = [loc EXCEPT ![p].tx[x] = new,
                              ![p].mov = Append(@,
                                 [ product |-> x, movement_type |-> "purchase",
                                   quantity |-> it.quantity, previous_quantity |-> previous,
                                   new_quantity |-> new, ref |-> loc[p].target ]),
                              ![p].i = @ + 1]
        /\ pc' = [pc EXCEPT ![p] =
                    IF loc[p].i = Len(loc[p].items) THEN "recv_commit" ELSE "recv_read"]
  /\ UNCHANGED <<db, resp, nreq, applied_delta>>

\* "po.status = 'received'; po.received_date = now; po.save()" and the commit.
ReceiveCommit(p) ==
  /\ pc[p] = "recv_commit"
  /\ purchase_orders' = [purchase_orders EXCEPT
        ![loc[p].target].status = "received",
        ![loc[p].target].received_date = TRUE,
        ![loc[p].target].items =
           [k \in 1..Len(loc[p].items) |->
              [loc[p].items[k] EXCEPT !.quantity_received = loc[p].items[k].quantity]]]
  /\ stock_quantity' = CommittedStock(p)
  /\ stock_movements' = stock_movements \o loc[p].mov
  /\ stock_alerts' = ResolveAlerts(stock_alerts, {x \in Products : row_lock[x] = p})
  /\ row_lock' = ReleasedLocks(p)
  /\ applied_delta' = [x \in Products |-> applied_delta[x] + QtyOf(loc[p].items, x)]
  /\ Return(p, <<"po_receive", "Ok">>)
  /\ UNCHANGED <<sales, payments, nreq>>

\* POST /purchase-orders/<pk>/cancel/: the get and the status check.
CancelPOBegin(p, id) ==
  /\ Admit(p)
  /\ id \in 1..Len(purchase_orders)
  /\ IF AlreadyReceived(purchase_orders[id].status)
     THEN Return(p, <<"po_cancel", "Conflict">>)
     ELSE /\ pc' = [pc EXCEPT ![p] = "cpo_save"]
          /\ loc' = [loc EXCEPT ![p] =
                [IdleLoc EXCEPT !.target = id, !.status = purchase_orders[id].status,
                                !.received_date = purchase_orders[id].received_date]]
          /\ UNCHANGED resp
  /\ UNCHANGED <<db, row_lock, applied_delta>>

\* Variant: the status is left as it was.
CancelledPO_KeepsStatus(po, received_date) ==
  [po EXCEPT !.received_date = received_date]

\* cancel_purchase_order: "po.status = 'cancelled'; po.save()" writes the
\* PurchaseOrder row from the instance read before, and no item row.
CancelledPO(po, received_date) ==
  [po EXCEPT !.status = "cancelled", !.received_date = received_date]

\* "po.status = 'cancelled'; po.save()": the whole row is written from the
\* instance read in CancelPOBegin.
CancelPOSave(p) ==
  /\ pc[p] = "cpo_save"
  /\ purchase_orders' = [purchase_orders EXCEPT
        ![loc[p].target] = CancelledPO(@, loc[p].received_date)]
  /\ Return(p, <<"po_cancel", "Ok">>)
  /\ UNCHANGED <<stock_quantity, stock_movements, sales, stock_alerts, payments, row_lock,
                 nreq, applied_delta>>

\* ------------------------------------------------------------ sale cancellation
\* Variant: the status compared with a misspelt value.
AlreadyCancelled_Misspelt(status) == status = "canceled"

\* cancel_sale_view: "if sale.status == 'cancelled'".
AlreadyCancelled(status) == status = "cancelled"

\* Variant: the quantity is added back twice.
RestoredStock_Twice(stock, quantity) == stock + 2 * quantity

\* Variant: the quantity is subtracted again instead of added back.
RestoredStock_Subtract(stock, quantity) == stock - quantity

\* cancel_sale_view: "product.stock_quantity += item.quantity".
RestoredStock(stock, quantity) == stock + quantity

\* POST /sales/<pk>/cancel/: Sale.objects.get and the status check, both before
\* the atomic block.
CancelSaleBegin(p, id) ==
  /\ Admit(p)
  /\ id \in 1..Len(sales)
  /\ IF AlreadyCancelled(sales[id].status)
     THEN Return(p, <<"sale_cancel", "Conflict">>)
     ELSE /\ pc' = [pc EXCEPT ![p] = "cs_read"]
          /\ loc' = [loc EXCEPT ![p] =
                [IdleLoc EXCEPT !.target = id, !.status = sales[id].status,
                                !.items = sales[id].items, !.i = 1]]
          /\ UNCHANGED resp
  /\ UNCHANGED <<db, row_lock, applied_delta>>

\* "product = item.product": a plain SELECT of the product row.
CancelSaleRead(p) ==
  /\ pc[p] = "cs_read"
  /\ loc' = [loc EXCEPT ![p].snap = ReadStock(p, loc[p].items[loc[p].i].product)]
  /\ pc' = [pc EXCEPT ![p] = "cs_write"]
  /\ UNCHANGED <<db, row_lock, resp, nreq, applied_delta>>

\* "product.stock_quantity += item.quantity; product.save()".
CancelSaleWrite(p) ==
  /\ pc[p] = "cs_write"
  /\ LET it == loc[p].items[loc[p].i]
         x == it.product
     IN /\ CanLock(p, x)
        /\ row_lock' = [row_lock EXCEPT ![x] = p]
        /\ loc' = [loc EXCEPT ![p].tx[x] = RestoredStock(loc[p].snap, it.quantity),
                              ![p].i = @ + 1]
        /\ pc' = [pc EXCEPT ![p] =
                    IF loc[p].i = Len(loc[p].items) THEN "cs_commit" ELSE "cs_read"]
  /\ UNCHANGED <<db, resp, nreq, applied_delta>>

\* "sale.status = 'cancelled'; sale.save()" and the commit.
CancelSaleCommit(p) ==
  /\ pc[p] = "cs_commit"
  /\ sales' = [sales EXCEPT ![loc[p].target].status = "cancelled"]
  /\ stock_quantity' = CommittedStock(p)
  /\ row_lock' = ReleasedLocks(p)
  /\ applied_delta' = [x \in Products |-> applied_delta[x] + QtyOf(loc[p].items, x)]
  /\ Return(p, <<"sale_cancel", "Ok">>)
  /\ UNCHANGED <<stock_movements, purchase_orders, stock_alerts, payments, nreq>>

\* ------------------------------------------------------------ failure inside a transaction
\* The product row the handler's next UPDATE or SELECT ... FOR UPDATE needs.
NextRow(p) ==
  IF pc[p] = "adj_save" THEN loc[p].items[1].product
  ELSE loc[p].items[loc[p].i].product

\* Variant: the database never gives up on a wait.
Blocked_Never(p) == FALSE

\* The handler is waiting for a row another transaction holds.
Blocked(p) ==
  /\ pc[p] \in {"sale_create", "adj_save", "recv_write", "cs_write"}
  /\ ~CanLock(p, NextRow(p))

Operation(p) ==
  CASE pc[p] = "sale_create" -> "sale_create"
    [] pc[p] = "adj_save" -> "stock_adjust"
    [] pc[p] = "recv_write" -> "po_receive"
    [] OTHER -> "sale_cancel"

\* Variant: the rows the transaction wrote so far stay.
RolledBackStock_Partial(p) == CommittedStock(p)

\* transaction.atomic() left by an exception: the committed rows stay as they were.
RolledBackStock(p) == stock_quantity

\* The database gives up on the wait (lock wait timeout, deadlock victim): the
\* statement raises inside transaction.atomic(), the block rolls back and the
\* request fails.
Abort(p) ==
  /\ Blocked(p)
  /\ stock_quantity' = RolledBackStock(p)
  /\ row_lock' = ReleasedLocks(p)
  /\ Return(p, <<Operation(p), "Error">>)
  /\ UNCHANGED <<stock_movements, sales, purchase_orders, stock_alerts, payments, nreq,
                 applied_delta>>

\* ------------------------------------------------------------ specifications
Work(p) ==
  \/ \E req \in SaleRequests : StartSale(p, req)
  \/ SaleValidate(p)
  \/ SaleItemStep(p)
  \/ SaleCommit(p)
  \/ \E x \in Products, atype \in AdjustmentTypes, quantity \in AdjustQuantities :
        AdjustValidate(p, x, atype, quantity)
  \/ AdjustSave(p)
  \/ AdjustCommit(p)
  \/ \E items \in PORequests : POCreate(p, items)
  \/ \E id \in 1..MaxRequests : ReceiveBegin(p, id)
  \/ ReceiveRead(p)
  \/ ReceiveWrite(p)
  \/ ReceiveCommit(p)
  \/ \E id \in 1..MaxRequests : CancelPOBegin(p, id)
  \/ CancelPOSave(p)
  \/ \E id \in 1..MaxRequests : CancelSaleBegin(p, id)
  \/ CancelSaleRead(p)
  \/ CancelSaleWrite(p)
  \/ CancelSaleCommit(p)

Step(p) == Work(p) \/ Abort(p)

\* Two workers serve requests concurrently.
Next == \E p \in Procs : Step(p)

Spec == Init /\ [][Next]_vars

\* Every worker keeps running, and the database resolves every lock wait that
\* lasts (deadlock detection, lock wait timeout).
LiveStep(p) == Step(p) /\ nreq' <= MaxLiveRequests

LiveNext == \E p \in Procs : LiveStep(p)

LiveSpec == Init /\ [][LiveNext]_vars /\ \A p \in Procs : WF_vars(LiveStep(p))

\* One worker: every request runs to its response before the next is admitted.
SerialNext == Work("r1")

SerialSpec == Init /\ [][SerialNext]_vars

\* One worker serving sale creations, the requests drawn from the wider sets
\* of discounts, amounts paid and payment methods.
PayNext ==
  \/ \E req \in PaySaleRequests : nreq < MaxPayRequests /\ StartSale("r1", req)
  \/ SaleValidate("r1")
  \/ SaleItemStep("r1")
  \/ SaleCommit("r1")

PaySpec == Init /\ [][PayNext]_vars

\* One worker serving purchase-order creations and receives, the items drawn
\* from the wider sets of quantities and unit costs.
PONext ==
  \/ \E items \in POWideRequests : nreq < MaxPORequests /\ POCreate("r1", items)
  \/ \E id \in 1..MaxPORequests : nreq < MaxPORequests /\ ReceiveBegin("r1", id)
  \/ ReceiveRead("r1")
  \/ ReceiveWrite("r1")
  \/ ReceiveCommit("r1")

POSpec == Init /\ [][PONext]_vars

\* ------------------------------------------------------------ properties
AllMovements ==
  { stock_movements[k] : k \in 1..Len(stock_movements) } \cup
  UNION { { loc[p].mov[k] : k \in 1..Len(loc[p].mov) } : p \in Procs }

\* Sum of StockMovement.quantity over the committed ledger rows of product x.
LedgerSum(x) == QtyOf(stock_movements, x)

\* C1: in every reachable state, under any interleaving of sale creations,
\* stock adjustments, purchase-order receives and sale cancellations, every
\* product's committed stock_quantity is >= 0.
C1_StockNeverNegative == \A x \in Products : stock_quantity[x] >= 0

\* C2: concurrent mutators of a product are serialized: the committed
\* stock_quantity always equals the initial stock plus the sum of the deltas of
\* the operations committed so far (no committed change is lost to a stale read).
C2_NoLostUpdate ==
  \A x \in Products : stock_quantity[x] = InitStock + applied_delta[x]

\* C3: a sale request in which some item's quantity exceeds the product's
\* stock cannot pass validation: each validation step, the one at arrival
\* included, either stays in validation or fails with InsufficientStock, and
\* creates no Sale, SaleItem or StockMovement row and changes no stock_quantity.
C3_InsufficientStockRejected ==
  [][\A p \in Procs :
       LET Short(items) ==
             \E k \in 1..Len(items) :
               items[k].quantity > stock_quantity[items[k].product]
           Rejected ==
             /\ UNCHANGED <<db, row_lock>>
             /\ \/ pc'[p] = "sale_validate"
                \/ pc'[p] = "idle" /\ resp' = <<"sale_create", "InsufficientStock">>
       IN /\ (pc[p] = "sale_validate" /\ Short(loc[p].items)) => Rejected
          /\ \A req \in SaleRequests :
               (StartSale(p, req) /\ Short(req.items)) => Rejected]_vars

C3_Witness ==
  /\ resp = <<"sale_create", "InsufficientStock">>
  /\ \E x \in Products : stock_quantity[x] = 0

\* C4: every StockMovement row ever written, committed or not, satisfies
\* new_quantity - previous_quantity = quantity.
C4_MovementArithmetic ==
  \A m \in AllMovements : m.new_quantity - m.previous_quantity = m.quantity

C4_Witness ==
  /\ \E k \in 1..Len(stock_movements) :
        stock_movements[k].movement_type = "adjustment" /\ stock_movements[k].quantity < 0
  /\ \E k \in 1..Len(stock_movements) : stock_movements[k].movement_type = "sale"

\* C5: the ledger accounts for every stock change: in every reachable state a
\* product's stock_quantity equals its initial stock plus the sum of quantity
\* over its StockMovement rows.
C5_LedgerAccountsForStock ==
  \A x \in Products : stock_quantity[x] = InitStock + LedgerSum(x)

\* C6: a cancel request that finds the sale already cancelled returns Conflict
\* and changes neither a stock_quantity nor the sale nor any other row.
C6_CancelledSaleConflict ==
  [][\A p \in Procs : \A id \in 1..Len(sales) :
       (sales[id].status = "cancelled" /\ CancelSaleBegin(p, id))
       => /\ resp' = <<"sale_cancel", "Conflict">>
          /\ pc'[p] = "idle"
          /\ UNCHANGED <<db, row_lock>>]_vars

C6_Witness ==
  /\ resp = <<"sale_cancel", "Conflict">>
  /\ \E id \in 1..Len(sales) : sales[id].status = "cancelled"

C8_ReceiveEffect ==
  [][\A p \in Procs :
       (pc[p] = "recv_commit" /\ pc'[p] = "idle")
       => LET id == loc[p].target
              po == purchase_orders[id]
              n == Len(stock_movements)
          IN /\ \A x \in Products :
                  stock_quantity'[x] = stock_quantity[x] + QtyOf(po.items, x)
             /\ purchase_orders'[id].status = "received"
             /\ Len(purchase_orders'[id].items) = Len(po.items)
             /\ \A k \in 1..Len(po.items) :
                  /\ purchase_orders'[id].items[k].product = po.items[k].product
                  /\ purchase_orders'[id].items[k].quantity = po.items[k].quantity
                  /\ purchase_orders'[id].items[k].quantity_received = po.items[k].quantity
             /\ Len(stock_movements') = n + Len(po.items)
             /\ \A k \in 1..n : stock_movements'[k] = stock_movements[k]
             /\ \A k \in 1..Len(po.items) :
                  /\ stock_movements'[n + k].movement_type = "purchase"
                  /\ stock_movements'[n + k].product = po.items[k].product
                  /\ stock_movements'[n + k].quantity = po.items[k].quantity
                  /\ stock_movements'[n + k].ref = id
             /\ Len(stock_alerts') = Len(stock_alerts)
             /\ \A k \in 1..Len(stock_alerts) :
                  /\ stock_alerts'[k].product = stock_alerts[k].product
                  /\ stock_alerts'[k].is_resolved =
                       ( stock_alerts[k].is_resolved
                         \/ \E j \in 1..Len(po.items) :
                              po.items[j].product = stock_alerts[k].product )]_vars

C8_Witness ==
  /\ resp = <<"po_receive", "Ok">>
  /\ \E id \in 1..Len(purchase_orders) :
        /\ purchase_orders[id].status = "received"
        /\ Len(purchase_orders[id].items) = 2
        /\ purchase_orders[id].items[1].product = purchase_orders[id].items[2].product
        /\ \E k \in 1..Len(stock_alerts) :
              /\ stock_alerts[k].product = purchase_orders[id].items[1].product
              /\ stock_alerts[k].is_resolved

\* C9: a receive request and a cancel request that find the purchase order
\* already received return Conflict and change no PO, stock_quantity, ledger
\* row or alert.
C9_ReceivedPOConflict ==
  [][\A p \in Procs : \A id \in 1..Len(purchase_orders) :
       purchase_orders[id].status = "received"
       => /\ ReceiveBegin(p, id)
               => /\ resp' = <<"po_receive", "Conflict">>
                  /\ pc'[p] = "idle"
                  /\ UNCHANGED <<db, row_lock>>
          /\ CancelPOBegin(p, id)
               => /\ resp' = <<"po_cancel", "Conflict">>
                  /\ pc'[p] = "idle"
                  /\ UNCHANGED <<db, row_lock>>]_vars

C9_Witness ==
  /\ resp = <<"po_receive", "Conflict">>
  /\ \E id \in 1..Len(purchase_orders) : purchase_orders[id].status = "received"

\* C10: a purchase order whose status is received or cancelled keeps that
\* status in every later step.
C10_TerminalStatusKept ==
  [][\A id \in 1..Len(purchase_orders) :
       purchase_orders[id].status \in {"received", "cancelled"}
       => purchase_orders'[id].status = purchase_orders[id].status]_vars

\* C11: in every reachable state, under any interleaving of stock adjustments,
\* purchase-order receives and the other operations, each product has at most
\* one StockAlert with is_resolved = FALSE.
C11_AtMostOneOpenAlert ==
  \A x \in Products : Cardinality(OpenAlerts(stock_alerts, x)) <= 1

\* Two adjustments of one product that both read the initial stock (they
\* overlapped) and both brought it to the alert level have committed.
C11_Witness ==
  /\ Len(stock_movements) = 2
  /\ \A k \in 1..2 :
        /\ stock_movements[k].movement_type = "adjustment"
        /\ stock_movements[k].product = stock_movements[1].product
        /\ stock_movements[k].previous_quantity = InitStock
        /\ stock_movements[k].new_quantity <= MinLevel
  /\ Cardinality(OpenAlerts(stock_alerts, stock_movements[1].product)) = 1

\* C12: every committed sale's persisted amounts satisfy
\* total = subtotal - discount_amount + tax_amount and
\* change_amount = amount_paid - total.
C12_SaleAmountsAddUp ==
  \A id \in 1..Len(sales) :
    /\ sales[id].total =
         sales[id].subtotal - sales[id].discount_amount + sales[id].tax_amount
    /\ sales[id].change_amount = sales[id].amount_paid - sales[id].total

\* C13: a sale request whose amount_paid is below the computed total never
\* passes validation: every validation step of it, the one at arrival included,
\* creates no row and changes no stock, and the step that finds the stock
\* sufficient for the last item fails with InsufficientPayment; consequently
\* every persisted Sale has amount_paid >= total and change_amount >= 0.
C13_InsufficientPaymentRejected ==
  [][/\ \A p \in Procs :
          LET Under(req) ==
                req.amount_paid < Calculated(req.items, req.amount_paid).total
              Last(req, i) ==
                /\ i = Len(req.items)
                /\ req.items[i].quantity <= stock_quantity[req.items[i].product]
              Rejected(req, i) ==
                /\ UNCHANGED <<db, row_lock>>
                /\ \/ pc'[p] = "sale_validate"
                   \/ /\ pc'[p] = "idle"
                      /\ resp' \in { <<"sale_create", "InsufficientPayment">>,
                                     <<"sale_create", "InsufficientStock">> }
                /\ Last(req, i) =>
                     pc'[p] = "idle" /\ resp' = <<"sale_create", "InsufficientPayment">>
              cur == [ items |-> loc[p].items, amount_paid |-> loc[p].paid,
                       payment_method |-> loc[p].method ]
          IN /\ (pc[p] = "sale_validate" /\ Under(cur)) => Rejected(cur, loc[p].i)
             /\ \A req \in PaySaleRequests :
                  (StartSale(p, req) /\ Under(req)) => Rejected(req, 1)
     /\ \A id \in 1..Len(sales') :
          sales'[id].amount_paid >= sales'[id].total /\ sales'[id].change_amount >= 0]_vars

C13_Witness ==
  /\ resp = <<"sale_create", "InsufficientPayment">>
  /\ sales = <<>> /\ payments = <<>> /\ stock_movements = <<>>
  /\ \A x \in Products : stock_quantity[x] = InitStock

\* C14: every committed sale has exactly one Payment row, whose amount is the
\* sale's amount_paid and whose payment_method is the sale's; no step of any
\* operation changes or deletes a Payment row that exists.
C14_OnePaymentPerSale ==
  [][/\ \A id \in 1..Len(sales') :
          /\ Cardinality({ k \in 1..Len(payments') : payments'[k].sale = id }) = 1
          /\ \A k \in 1..Len(payments') :
               payments'[k].sale = id
               => /\ payments'[k].amount = sales'[id].amount_paid
                  /\ payments'[k].payment_method = sales'[id].payment_method
     /\ Len(payments') >= Len(payments)
     /\ \A k \in 1..Len(payments) : payments'[k] = payments[k]
     /\ Len(payments') > Len(payments) => Len(sales') > Len(sales)]_vars

\* Two sales are committed and one of them has been cancelled since.
C14_Witness ==
  /\ Len(sales) = 2 /\ Len(payments) = 2
  /\ \E id \in 1..2 : sales[id].status = "cancelled"

\* C15: every Payment row ever persisted has amount >= 0.01.
C15_PaymentAmountPositive ==
  \A k \in 1..Len(payments) : payments[k].amount >= 1

C17_AdjustmentSemantics ==
  [][\A p \in Procs :
       (pc[p] = "adj_commit" /\ pc'[p] = "idle")
       => LET x == loc[p].items[1].product
              q == loc[p].items[1].quantity
              prev == stock_quantity[x]
              new == CASE loc[p].atype = "add" -> prev + q
                       [] loc[p].atype = "remove" -> prev - q
                       [] loc[p].atype = "set" -> q
              delta == CASE loc[p].atype = "add" -> q
                         [] loc[p].atype = "remove" -> 0 - q
                         [] loc[p].atype = "set" -> q - prev
          IN /\ stock_quantity' = [stock_quantity EXCEPT ![x] = new]
             /\ stock_movements' = Append(stock_movements,
                   [ product |-> x, movement_type |-> "adjustment", quantity |-> delta,
                     previous_quantity |-> prev, new_quantity |-> new, ref |-> 0 ])]_vars

\* Adjustments have lowered and raised one product's stock.
C17_Witness ==
  /\ resp = <<"stock_adjust", "Ok">>
  /\ Len(stock_movements) = 3
  /\ \A k \in 1..3 :
        /\ stock_movements[k].movement_type = "adjustment"
        /\ stock_movements[k].product = stock_movements[1].product
  /\ stock_movements[1].quantity < 0
  /\ stock_movements[2].quantity > 0
  /\ stock_movements[3].new_quantity = 0
  /\ stock_quantity[stock_movements[1].product] = 0

\* C18: a stock adjustment of type remove whose quantity exceeds the
\* product's stock fails with InsufficientStock and leaves the stock, the
\* ledger and the alerts unchanged.
C18_RemoveBeyondStockRejected ==
  [][\A p \in Procs : \A x \in Products : \A q \in AdjustQuantities :
       (AdjustValidate(p, x, "remove", q) /\ q > stock_quantity[x])
       => /\ resp' = <<"stock_adjust", "InsufficientStock">>
          /\ pc'[p] = "idle"
          /\ UNCHANGED <<db, row_lock>>]_vars

C18_Witness ==
  /\ resp = <<"stock_adjust", "InsufficientStock">>
  /\ \E x \in Products : stock_quantity[x] = 0
  /\ \A k \in 1..Len(stock_movements) : stock_movements[k].movement_type = "sale"

\* C19: the commit of a stock adjustment that leaves product x at or below
\* min_stock_level leaves exactly one open StockAlert for x: when none was open
\* it appends one with alert_level = min_stock_level and current_stock = the
\* new stock, otherwise the table of alerts stays as it is; a commit that
\* leaves x above the level writes no alert.
C19_AdjustmentAlert ==
  [][\A p \in Procs :
       (pc[p] = "adj_commit" /\ pc'[p] = "idle")
       => LET x == loc[p].items[1].product
              new == stock_quantity'[x]
          IN IF new <= MinLevel
             THEN /\ Cardinality(OpenAlerts(stock_alerts', x)) = 1
                  /\ stock_alerts' =
                       IF OpenAlerts(stock_alerts, x) = {}
                       THEN Append(stock_alerts,
                              [ product |-> x, alert_level |-> MinLevel,
                                current_stock |-> new, is_resolved |-> FALSE ])
                       ELSE stock_alerts
             ELSE stock_alerts' = stock_alerts]_vars

\* Two adjustments brought one product to the alert level, the second while
\* the alert of the first was still open.
C19_Witness ==
  /\ resp = <<"stock_adjust", "Ok">>
  /\ Len(stock_movements) >= 2
  /\ \A k \in 1..Len(stock_movements) :
        /\ stock_movements[k].movement_type = "adjustment"
        /\ stock_movements[k].product = stock_movements[1].product
        /\ stock_movements[k].new_quantity <= MinLevel
  /\ Len(stock_alerts) = 1
  /\ ~stock_alerts[1].is_resolved
  /\ stock_alerts[1].product = stock_movements[1].product
  /\ stock_alerts[1].current_stock = stock_movements[1].new_quantity

\* C20: after any committed operation that changed a product's stock, the
\* product has an open StockAlert if its stock_quantity is at or below
\* min_stock_level, and has none if the operation raised the stock above it.
C20_AlertFollowsStock ==
  [][\A x \in Products :
       stock_quantity'[x] # stock_quantity[x]
       => /\ stock_quantity'[x] <= MinLevel => OpenAlerts(stock_alerts', x) # {}
          /\ (stock_quantity'[x] > stock_quantity[x] /\ stock_quantity'[x] > MinLevel)
               => OpenAlerts(stock_alerts', x) = {}]_vars

\* C21: a step that creates a purchase order creates it with status pending,
\* every item's persisted subtotal equal to its persisted unit_cost times its
\* quantity_ordered, the PO subtotal equal to the sum of the item subtotals,
\* tax_amount equal to 16% of the subtotal (to the cent), total equal to
\* subtotal + tax_amount, and changes no product's stock.
C21_POAmounts ==
  [][\A id \in (Len(purchase_orders) + 1)..Len(purchase_orders') :
       LET po == purchase_orders'[id]
           d == 100 * po.tax_amount - 16 * po.subtotal
       IN /\ po.status = "pending"
          /\ \A k \in 1..Len(po.items) :
               po.items[k].subtotal = po.items[k].unit_cost * po.items[k].quantity
          /\ po.subtotal = SumSeq([k \in 1..Len(po.items) |-> po.items[k].subtotal])
          /\ d >= -50 /\ d <= 50
          /\ po.total = po.subtotal + po.tax_amount
          /\ stock_quantity' = stock_quantity]_vars

\* C22: every PurchaseOrderItem persisted has quantity_ordered >= 1 and
\* unit_cost >= 0.01; a create request with an item of quantity < 1 or
\* unit_cost < 0.01 is rejected with ValidationError and creates no rows; the
\* commit of a receive lowers no product's stock.
C22_POItemsValidated ==
  [][/\ \A id \in 1..Len(purchase_orders') :
          \A k \in 1..Len(purchase_orders'[id].items) :
            /\ purchase_orders'[id].items[k].quantity >= 1
            /\ purchase_orders'[id].items[k].unit_cost >= 1
     /\ \A p \in Procs : \A items \in POWideRequests :
          ( /\ POCreate(p, items)
            /\ \E k \in 1..Len(items) :
                 items[k].quantity < 1 \/ items[k].unit_cost < Scale )
          => resp' = <<"po_create", "ValidationError">> /\ UNCHANGED db
     /\ \A p \in Procs :
          (pc[p] = "recv_commit" /\ pc'[p] = "idle")
          => \A x \in Products : stock_quantity'[x] >= stock_quantity[x]]_vars

\* C23: cancelling a purchase order that is not received changes nothing
\* before the save, and the save sets the status of that PO to cancelled and
\* leaves its items, every other PO, every stock_quantity, the ledger, the
\* alerts, the sales and the payments unchanged.
C23_CancelPOFrame ==
  [][\A p \in Procs :
       /\ \A id \in 1..Len(purchase_orders) :
            (CancelPOBegin(p, id) /\ purchase_orders[id].status # "received")
            => pc'[p] = "cpo_save" /\ UNCHANGED <<db, row_lock>>
       /\ (pc[p] = "cpo_save" /\ pc'[p] = "idle")
          => LET id == loc[p].target
             IN /\ resp' = <<"po_cancel", "Ok">>
                /\ Len(purchase_orders') = Len(purchase_orders)
                /\ purchase_orders'[id].status = "cancelled"
                /\ purchase_orders'[id].items = purchase_orders[id].items
                /\ \A j \in 1..Len(purchase_orders) :
                     j # id => purchase_orders'[j] = purchase_orders[j]
                /\ UNCHANGED <<stock_quantity, stock_movements, stock_alerts, sales,
                               payments, row_lock>>]_vars

\* A pending purchase order has been cancelled after the stock had moved.
C23_Witness ==
  /\ resp = <<"po_cancel", "Ok">>
  /\ stock_movements # <<>>
  /\ \E id \in 1..Len(purchase_orders) :
        /\ purchase_orders[id].status = "cancelled"
        /\ \A k \in 1..Len(purchase_orders[id].items) :
             purchase_orders[id].items[k].quantity_received = 0

\* C24: every started operation eventually commits or aborts: a handler that
\* has taken up a request eventually returns its response, also when
\* concurrent operations wait for each other's product rows.
C24_EventuallyDone ==
  \A p \in Procs : (pc[p] # "idle") ~> (pc[p] = "idle")

\* Two sale creations hold one product row each and wait for the other's.
C24_Witness ==
  /\ \A p \in Procs : pc[p] = "sale_create" /\ Blocked(p)
  /\ \A x \in Products : row_lock[x] # Free

\* C25: a committed sale creation inserts one Sale with status completed and,
\* for each input item in order, one SaleItem holding the product's name, sku,
\* price and tax_rate with the item's quantity; it lowers each product's stock
\* by the quantities of the items naming it and appends one StockMovement of
\* type sale per item, with the negated quantity, linked to the new sale.
C25_SaleEffect ==
  [][\A p \in Procs : SaleCommit(p) =>
       LET id == Len(sales) + 1
           req == loc[p].items
           n == Len(stock_movements)
       IN /\ Len(sales') = id
          /\ SubSeq(sales', 1, Len(sales)) = sales
          /\ sales'[id].status = "completed"
          /\ Len(sales'[id].items) = Len(req)
          /\ \A k \in 1..Len(req) :
               LET x == req[k].product
               IN /\ sales'[id].items[k].product = x
                  /\ sales'[id].items[k].product_name = Name[x]
                  /\ sales'[id].items[k].product_sku = Sku[x]
                  /\ sales'[id].items[k].unit_price = Price[x]
                  /\ sales'[id].items[k].tax_rate = TaxRate[x]
                  /\ sales'[id].items[k].quantity = req[k].quantity
          /\ \A x \in Products :
               stock_quantity'[x] = stock_quantity[x] - QtyOf(req, x)
          /\ Len(stock_movements') = n + Len(req)
          /\ SubSeq(stock_movements', 1, n) = stock_movements
          /\ \A k \in 1..Len(req) :
               /\ stock_movements'[n + k].product = req[k].product
               /\ stock_movements'[n + k].movement_type = "sale"
               /\ stock_movements'[n + k].quantity = 0 - req[k].quantity
               /\ stock_movements'[n + k].ref = id]_vars

\* A sale of two items on two different products has been committed.
C25_Witness ==
  /\ resp = <<"sale_create", "Created">>
  /\ \E id \in 1..Len(sales) :
        /\ Len(sales[id].items) = 2
        /\ sales[id].items[1].product # sales[id].items[2].product
        /\ Len(SelectSeq(stock_movements, LAMBDA m : m.movement_type = "sale" /\ m.ref = id)) = 2

\* C26: a committed sale sells of no product more than its stock_quantity
\* before the sale, counting every item of the sale that names the product; a
\* request whose items for one product together exceed its stock does not
\* commit.
C26_SoldWithinStock ==
  [][\A p \in Procs : SaleCommit(p) =>
       \A x \in Products : QtyOf(loc[p].items, x) <= stock_quantity[x]]_vars

\* The StockMovement rows of type purchase written for purchase order id.
PurchaseMovements(id) ==
  SelectSeq(stock_movements, LAMBDA m : m.movement_type = "purchase" /\ m.ref = id)

\* C27: under any interleaving of receive requests for one purchase order its
\* quantities are added to the stock at most once and at most one purchase
\* movement is written per item: a receive that commits is the first one for
\* its purchase order, and no purchase order ever has more purchase movements
\* than items.
C27_ReceivedAtMostOnce ==
  [][/\ \A p \in Procs : ReceiveCommit(p) => PurchaseMovements(loc[p].target) = <<>>
     /\ \A id \in 1..Len(purchase_orders') :
          Len(SelectSeq(stock_movements',
                        LAMBDA m : m.movement_type = "purchase" /\ m.ref = id))
            <= Len(purchase_orders'[id].items)]_vars

\* C28: under any interleaving of cancel requests for one sale the quantities
\* of its items are added back to the stock at most once: a cancel that
\* commits on a sale already cancelled raises no product's stock.
C28_RestoredAtMostOnce ==
  [][\A p \in Procs :
       CancelSaleCommit(p) /\ sales[loc[p].target].status = "cancelled"
         => \A x \in Products : stock_quantity'[x] <= stock_quantity[x]]_vars

\* C29: in every reachable state a purchase order whose status is cancelled
\* has contributed nothing to the stock: all its items have quantity_received
\* 0, its received_date is unset and no purchase movement references it.
C29_CancelledPOUntouched ==
  \A id \in 1..Len(purchase_orders) :
    purchase_orders[id].status = "cancelled"
      => /\ \A k \in 1..Len(purchase_orders[id].items) :
              purchase_orders[id].items[k].quantity_received = 0
         /\ purchase_orders[id].received_date = FALSE
         /\ PurchaseMovements(id) = <<>>

\* The stock of product x before sale id, as the sale's first StockMovement for
\* x recorded it (previous_quantity); a product the sale does not name kept
\* its stock.
StockBeforeSale(id, x) ==
  LET ms == SelectSeq(stock_movements,
                      LAMBDA m : m.movement_type = "sale" /\ m.ref = id /\ m.product = x)
  IN IF ms = <<>> THEN stock_quantity[x] ELSE ms[1].previous_quantity

\* C30: creating a sale and cancelling it next, with no operation in between,
\* leaves every product's stock equal to its value before the sale, also when
\* the sale names one product in two items.  The cancellation that commits
\* right after the creation of the latest sale (the last response is that
\* creation's) restores the stock the sale's movements recorded.
C30_SaleThenCancel ==
  [][\A p \in Procs :
       ( /\ CancelSaleCommit(p)
         /\ resp = <<"sale_create", "Created">>
         /\ loc[p].target = Len(sales) )
       => \A x \in Products : stock_quantity'[x] = StockBeforeSale(Len(sales), x)]_vars

\* A sale naming one product in two items was created and cancelled next.
C30_Witness ==
  /\ resp = <<"sale_cancel", "Ok">>
  /\ nreq = 2
  /\ Len(sales) = 1
  /\ sales[1].status = "cancelled"
  /\ Len(sales[1].items) = 2
  /\ sales[1].items[1].product = sales[1].items[2].product
====
